---- MODULE Spec2Model ----
(***************************************************************************)
(* Model of the ContactManager record store of src/contact_manager.py:     *)
(* the in-memory contact list, the bounded undo stack, the store file and  *)
(* its timestamped backups, and the operations add / update / delete /     *)
(* undo / import_from_csv / restore_backup with the helpers they call.     *)
(*                                                                         *)
(* Text is modelled as a sequence of character codes (ASCII), so that      *)
(* str.lower(), str.strip() and the phone normalisation are computed       *)
(* character by character as the code computes them.                       *)
(***************************************************************************)
EXTENDS Integers, Sequences, FiniteSets, TLC

(***************************************************************************)
(* Bounds of the model.                                                    *)
(***************************************************************************)
\* the clock is read at most this many times in the broad specification
MaxTime == 3
\* uuid.uuid4() is called at most this many times
MaxIds == 3
\* the disk fails (IOError in save_contacts) at most this many times
MaxFaults == 1
\* number of consecutive mutations of the deep scenario (one more than the
\* capacity of the undo stack)
ScenarioMutations == 11
\* the clock is read at most this many times in the specification whose
\* disk does not fail
LongTime == 5

(***************************************************************************)
(* Program constants.                                                      *)
(***************************************************************************)
\* deque(maxlen=10)
UndoMaxLen == 10
\* clock readings per second of the '%Y%m%d_%H%M%S' backup stamp (scaled)
TicksPerSecond == 2
\* phonenumbers: shortest national significant number that parses
MinLengthForNsn == 2
\* length of a valid national number of the one modelled region (scaled)
ValidNsnLength == 2
\* self.contacts_per_page = 20 (scaled)
ContactsPerPage == 2

(***************************************************************************)
(* Text helpers.                                                           *)
(***************************************************************************)
\* ' ', \t, \n, \r : what str.strip() and the regex class \s remove/match
Whitespace == {32, 9, 10, 13}

IsUpper(c) == c \in 65..90
IsLetter(c) == c \in 65..90 \/ c \in 97..122
IsDigit(c) == c \in 48..57

\* str.lower()
Lower(s) == [i \in DOMAIN s |-> IF IsUpper(s[i]) THEN s[i] + 32 ELSE s[i]]

RECURSIVE LStrip(_)
LStrip(s) == IF s # <<>> /\ Head(s) \in Whitespace THEN LStrip(Tail(s)) ELSE s

RECURSIVE RStrip(_)
RStrip(s) ==
    IF s # <<>> /\ s[Len(s)] \in Whitespace
    THEN RStrip(SubSeq(s, 1, Len(s) - 1))
    ELSE s

\* str.strip()
Strip(s) == RStrip(LStrip(s))

\* the text constants the model draws its inputs from
StrEmpty == <<>>
StrAl == <<65, 108>>                  \* "Al"
StrAlLower == <<97, 108>>             \* "al"
StrBo == <<66, 111>>                  \* "Bo"
StrCy == <<67, 121>>                  \* "Cy"
StrB2 == <<66, 50>>                   \* "B2"  (not letters only)
PhoneA == <<43, 49, 50, 51>>          \* "+123"
PhoneASpaced == <<43, 49, 32, 50, 51>> \* "+1 23" (PhoneA, other formatting)
PhoneB == <<43, 49, 50, 52>>          \* "+124"
PhoneC == <<43, 49, 50, 53>>          \* "+125"
PhoneNoPlus == <<49, 50, 51>>         \* "123"  (does not parse)
PhoneLong == <<43, 49, 50, 51, 52>>   \* "+1234" (parses, not valid)
MailA == <<97, 64, 98>>               \* "a@b"
MailAUpper == <<65, 64, 98>>          \* "A@b"
MailBad == <<97, 98>>                 \* "ab"
CatOther == <<79, 116, 104, 101, 114>> \* "Other"
CatWork == <<87, 111, 114, 107>>      \* "Work"

(***************************************************************************)
(* The phonenumbers and email_validator libraries, as the store uses them. *)
(***************************************************************************)
PhoneDigits(p) == SelectSeq(p, IsDigit)

\* phonenumbers.parse(phone, None) raises NumberParseException
ParseFails(phone) ==
    LET p == LStrip(phone)
        d == PhoneDigits(p)
    IN  \/ p = <<>>
        \/ Head(p) # 43                       \* no region and no leading '+'
        \/ \E i \in DOMAIN p : ~(IsDigit(p[i]) \/ p[i] \in {43, 32, 45})
        \/ d = <<>>
        \/ Head(d) # 49                       \* country calling code 1 only
        \/ Len(d) - 1 < MinLengthForNsn

\* format_number(parse(phone, None), PhoneNumberFormat.E164)
FormatE164(phone) == <<43>> \o PhoneDigits(phone)

\* phonenumbers.is_valid_number(parse(phone, None))
IsValidNumber(phone) == Len(PhoneDigits(phone)) - 1 = ValidNsnLength

\* validate_email(email, check_deliverability=False) raises EmailNotValidError
EmailInvalid(email) ==
    LET ats == {i \in DOMAIN email : email[i] = 64}
    IN  \/ Cardinality(ats) # 1
        \/ \E i \in ats : i = 1 \/ i = Len(email)

(***************************************************************************)
(* validate_inputs: "" when the inputs are valid, else which rule failed.  *)
(***************************************************************************)
validate_inputs(name0, phone0, email0) ==
    LET name == Strip(name0)
        phone == Strip(phone0)
        email == Strip(email0)
    IN  IF name = <<>> THEN "name required"
        ELSE IF ~(Len(name) <= 100 /\
                  \A i \in DOMAIN name :
                      IsLetter(name[i]) \/ name[i] \in Whitespace)
        THEN "name letters"
        ELSE IF ParseFails(phone) THEN "phone format"
        ELSE IF ~IsValidNumber(phone) THEN "phone invalid"
        ELSE IF email # <<>> /\ EmailInvalid(email) THEN "email format"
        ELSE ""

(***************************************************************************)
(* is_duplicate, over an explicit contact list.                            *)
(***************************************************************************)
\* is_duplicate without the 'email and' guard of the email comparison
is_duplicate_AnyEmail(cs, name, phone, email) ==
    LET normalized_phone ==
            IF ParseFails(phone) THEN phone ELSE FormatE164(phone)
    IN  \E i \in DOMAIN cs :
            \/ Lower(cs[i].name) = Lower(name)
            \/ cs[i].phone = normalized_phone
            \/ Lower(cs[i].email) = Lower(email)

is_duplicate(cs, name, phone, email) ==
    LET normalized_phone ==
            IF ParseFails(phone) THEN phone ELSE FormatE164(phone)
    IN  \E i \in DOMAIN cs :
            \/ Lower(cs[i].name) = Lower(name)
            \/ cs[i].phone = normalized_phone
            \/ (email # <<>> /\ Lower(cs[i].email) = Lower(email))

(***************************************************************************)
(* State.                                                                  *)
(***************************************************************************)
VARIABLES
    contacts,     \* self.contacts: the list of contact dicts
    undo_stack,   \* self.undo_stack: deque(maxlen=10) of action tuples
    store_file,   \* content of the file self.filename
    backups,      \* content of the files <filename>.backup_<stamp>, by stamp
    now,          \* the last reading of datetime.now()
    nextId,       \* the next value uuid.uuid4() returns
    faults,       \* how many times the disk has failed
    last,         \* the last call: operation, argument, result, state before
    muts,         \* successful mutations in a row since the last undo
    undos,        \* successful undos since the last mutation
    gui           \* the window: current_page, the search widgets, the rows

vars == <<contacts, undo_stack, store_file, backups, now, nextId, faults,
          last, muts, undos, gui>>

\* what a file may hold: nothing (no such file), bytes that are not JSON,
\* a JSON value that is not a list, or a JSON list of contact dicts
Absent == [kind |-> "absent", data |-> <<>>]
Corrupt == [kind |-> "corrupt", data |-> <<>>]
NotAList == [kind |-> "object", data |-> <<>>]
ListFile(cs) == [kind |-> "list", data |-> cs]
\* bytes that are not UTF-8 text, and a JSON list whose elements are not
\* objects (such as [1])
NotUtf8 == [kind |-> "bytes", data |-> <<>>]
ListOfNonDicts == [kind |-> "nondicts", data |-> <<>>]

Get(d, key, default) == IF key \in DOMAIN d THEN d[key] ELSE default

Contact(id, name, phone, email, category, notes, last_modified) ==
    [id |-> id, name |-> name, phone |-> phone, email |-> email,
     category |-> category, notes |-> notes, last_modified |-> last_modified]

\* datetime.now(): every reading is later than the one before
Clock(t) == t + 1
\* strftime('%Y%m%d_%H%M%S'): the reading at second resolution
Stamp(t) == t \div TicksPerSecond

Ids(cs) == {cs[i].id : i \in DOMAIN cs}
Range(s) == {s[i] : i \in DOMAIN s}

\* IndexOfId with the loop variable used after the loop: when no contact has
\* the id, the last contact examined is taken
IndexOfId_LastExamined(cs, id) ==
    IF \E i \in DOMAIN cs : cs[i].id = id
    THEN CHOOSE i \in DOMAIN cs :
             cs[i].id = id /\ \A j \in 1..(i - 1) : cs[j].id # id
    ELSE Len(cs)

\* index of the first contact with this id, 0 when there is none
IndexOfId(cs, id) ==
    IF \E i \in DOMAIN cs : cs[i].id = id
    THEN CHOOSE i \in DOMAIN cs :
             cs[i].id = id /\ \A j \in 1..(i - 1) : cs[j].id # id
    ELSE 0

\* RemoveAt as self.contacts.pop(): the last record is taken off the list
RemoveAt_Pop(cs, i) == SubSeq(cs, 1, Len(cs) - 1)

RemoveAt(cs, i) == SubSeq(cs, 1, i - 1) \o SubSeq(cs, i + 1, Len(cs))

\* deque(maxlen=10).append
DequeAppend(stack, entry) ==
    IF Len(stack) = UndoMaxLen
    THEN Append(Tail(stack), entry)
    ELSE Append(stack, entry)

(***************************************************************************)
(* save_contacts: the disk after the call, the clock, and whether IOError  *)
(* was raised.  io is what the disk does: "ok", or the step that fails:    *)
(* "copy" (shutil.copy), "open" (open for writing), "write" (json.dump).   *)
(***************************************************************************)
IoOutcomes == {"ok", "copy", "open", "write"}

\* save_contacts with the copy made after the file has been rewritten: the
\* backup holds the new content
save_contacts_CopyAfter(cs, file, bks, t, io) ==
    LET exists == file.kind # "absent"
        t1 == IF exists THEN Clock(t) ELSE t
        copied == exists /\ io = "ok"
        bks1 == IF copied
                THEN [s \in DOMAIN bks \cup {Stamp(t1)} |->
                         IF s = Stamp(t1) THEN ListFile(cs) ELSE bks[s]]
                ELSE bks
    IN  IF io = "open" \/ io = "copy"
        THEN [file |-> file, backups |-> bks, now |-> t1, raised |-> TRUE]
        ELSE IF io = "write"
        THEN [file |-> Corrupt, backups |-> bks, now |-> t1, raised |-> TRUE]
        ELSE [file |-> ListFile(cs), backups |-> bks1, now |-> t1,
              raised |-> FALSE]

\* save_contacts without the json.dump: the file is opened for writing
\* (truncated) and closed
save_contacts_NoDump(cs, file, bks, t, io) ==
    LET exists == file.kind # "absent"
        t1 == IF exists THEN Clock(t) ELSE t
        copied == exists /\ io # "copy"
        bks1 == IF copied
                THEN [s \in DOMAIN bks \cup {Stamp(t1)} |->
                         IF s = Stamp(t1) THEN file ELSE bks[s]]
                ELSE bks
    IN  IF exists /\ io = "copy"
        THEN [file |-> file, backups |-> bks, now |-> t1, raised |-> TRUE]
        ELSE IF io = "open"
        THEN [file |-> file, backups |-> bks1, now |-> t1, raised |-> TRUE]
        ELSE IF io = "write"
        THEN [file |-> Corrupt, backups |-> bks1, now |-> t1, raised |-> TRUE]
        ELSE [file |-> Corrupt, backups |-> bks1, now |-> t1,
              raised |-> FALSE]

save_contacts(cs, file, bks, t, io) ==
    LET exists == file.kind # "absent"
        t1 == IF exists THEN Clock(t) ELSE t
        copied == exists /\ io # "copy"
        bks1 == IF copied
                THEN [s \in DOMAIN bks \cup {Stamp(t1)} |->
                         IF s = Stamp(t1) THEN file ELSE bks[s]]
                ELSE bks
    IN  IF exists /\ io = "copy"
        THEN [file |-> file, backups |-> bks, now |-> t1, raised |-> TRUE]
        ELSE IF io = "open"
        THEN [file |-> file, backups |-> bks1, now |-> t1, raised |-> TRUE]
        ELSE IF io = "write"
        THEN [file |-> Corrupt, backups |-> bks1, now |-> t1, raised |-> TRUE]
        ELSE [file |-> ListFile(cs), backups |-> bks1, now |-> t1,
              raised |-> FALSE]

(***************************************************************************)
(* load_contacts: the list after construction, with the missing fields of  *)
(* each loaded dict filled in.                                             *)
(***************************************************************************)
\* Backfill with last_modified set to the time of loading in every dict,
\* whether the key is there or not
RECURSIVE Backfill_Restamp(_, _, _, _)
Backfill_Restamp(ds, acc, id, t) ==
    IF ds = <<>>
    THEN [contacts |-> acc, nextId |-> id, now |-> t]
    ELSE LET d == Head(ds)
             noId == "id" \notin DOMAIN d
             t1 == Clock(t)
             c == Contact(Get(d, "id", id), d.name, d.phone, d.email,
                          Get(d, "category", CatOther),
                          Get(d, "notes", StrEmpty), t1)
         IN  Backfill_Restamp(Tail(ds), Append(acc, c),
                              IF noId THEN id + 1 ELSE id, t1)

RECURSIVE Backfill(_, _, _, _)
Backfill(ds, acc, id, t) ==
    IF ds = <<>>
    THEN [contacts |-> acc, nextId |-> id, now |-> t]
    ELSE LET d == Head(ds)
             noId == "id" \notin DOMAIN d
             noTime == "last_modified" \notin DOMAIN d
             t1 == IF noTime THEN Clock(t) ELSE t
             c == Contact(Get(d, "id", id), d.name, d.phone, d.email,
                          Get(d, "category", CatOther),
                          Get(d, "notes", StrEmpty),
                          Get(d, "last_modified", t1))
         IN  Backfill(Tail(ds), Append(acc, c),
                      IF noId THEN id + 1 ELSE id, t1)

load_contacts(file, id, t) ==
    IF file.kind = "list"
    THEN Backfill(file.data, <<>>, id, t)
    ELSE [contacts |-> <<>>, nextId |-> id, now |-> t]

\* the exception load_contacts lets out of the constructor, "None" when it
\* returns.  'except (json.JSONDecodeError, IOError)' catches neither the
\* UnicodeDecodeError of file.read() nor the TypeError of "'id' not in
\* contact" on an element that is not a dict; self.contacts is then still
\* the [] of line 27.
load_contacts_raises(file) ==
    IF file.kind = "bytes" THEN "UnicodeDecodeError"
    ELSE IF file.kind = "nondicts" THEN "TypeError"
    ELSE "None"

(***************************************************************************)
(* Bookkeeping of the calls (what the caller observes).                    *)
(***************************************************************************)
\* the record of a call: the state it started from and what it returned.
\* ret is "contact" / "None" for add_contact, "True" / "False" for the
\* others, "IOError" when save_contacts raised out of the call.
Call(op, arg, ret) ==
    last' = [op |-> op, arg |-> arg, ret |-> ret, contacts |-> contacts,
             undo_stack |-> undo_stack, store_file |-> store_file,
             backups |-> backups]

NoCall ==
    [op |-> "init", arg |-> <<>>, ret |-> "None", contacts |-> <<>>,
     undo_stack |-> <<>>, store_file |-> Absent, backups |-> <<>>]

\* the fields of the window when the manager is used without one
NoWindow ==
    [current_page |-> 1, search_entry |-> <<>>, search_field |-> "all",
     category_filter |-> <<65, 108, 108>>, listed |-> <<>>]

\* a mutation returned success
CountMutation ==
    /\ muts' = IF undos > 0 THEN 1
               ELSE IF muts < ScenarioMutations THEN muts + 1 ELSE muts
    /\ undos' = 0
\* a call changed the state without returning success
CountBroken == muts' = 0 /\ undos' = 0
\* an undo returned True
CountUndo == undos' = undos + 1 /\ UNCHANGED muts

\* the disk may fail only while the fault budget lasts
MayFail(io) == io = "ok" \/ faults < MaxFaults

Saved(s) ==
    /\ store_file' = s.file
    /\ backups' = s.backups
    /\ now' = s.now
    /\ faults' = IF s.raised THEN faults + 1 ELSE faults

(***************************************************************************)
(* add_contact                                                             *)
(***************************************************************************)
\* add_contact without the is_duplicate test
add_contact_Unchecked(name, phone, email, category, notes, io) ==
    /\ MayFail(io)
    /\ LET t == Clock(now)
           contact == Contact(nextId, name, phone, email, category, notes, t)
           cs == Append(contacts, contact)
           s == save_contacts(cs, store_file, backups, t, io)
       IN  /\ nextId' = nextId + 1
           /\ undo_stack' = DequeAppend(undo_stack, <<"add", contact>>)
           /\ contacts' = cs
           /\ Saved(s)
           /\ IF s.raised
              THEN CountBroken /\
                   Call("add", <<name, phone, email>>, "IOError")
              ELSE CountMutation /\
                   Call("add", <<name, phone, email>>, "contact")

add_contact(name, phone, email, category, notes, io) ==
    /\ MayFail(io)
    /\ LET t == Clock(now)
           contact == Contact(nextId, name, phone, email, category, notes, t)
       IN  /\ nextId' = nextId + 1
           /\ IF is_duplicate(contacts, name, phone, email)
              THEN /\ io = "ok"
                   /\ now' = t
                   /\ UNCHANGED <<contacts, undo_stack, store_file, backups,
                                  faults, muts, undos>>
                   /\ Call("add", <<name, phone, email>>, "None")
              ELSE LET cs == Append(contacts, contact)
                       s == save_contacts(cs, store_file, backups, t, io)
                   IN  /\ undo_stack' = DequeAppend(undo_stack,
                                                    <<"add", contact>>)
                       /\ contacts' = cs
                       /\ Saved(s)
                       /\ IF s.raised
                          THEN CountBroken /\
                               Call("add", <<name, phone, email>>, "IOError")
                          ELSE CountMutation /\
                               Call("add", <<name, phone, email>>, "contact")

(***************************************************************************)
(* update_contact                                                          *)
(***************************************************************************)
\* update_contact with last_modified set to the epoch instead of now
update_contact_Epoch(contact_id, name, phone, email, category, notes, io) ==
    /\ MayFail(io)
    /\ LET i == IndexOfId(contacts, contact_id)
       IN  IF i = 0
           THEN /\ io = "ok"
                /\ UNCHANGED <<contacts, undo_stack, store_file, backups, now,
                               nextId, faults, muts, undos>>
                /\ Call("update", contact_id, "False")
           ELSE LET t == Clock(now)
                    old_contact == contacts[i]
                    contact == Contact(old_contact.id, name, phone, email,
                                       category, notes, 0)
                    cs == [contacts EXCEPT ![i] = contact]
                    s == save_contacts(cs, store_file, backups, t, io)
                IN  /\ undo_stack' =
                           DequeAppend(undo_stack,
                                       <<"update", old_contact, contact>>)
                    /\ contacts' = cs
                    /\ Saved(s)
                    /\ UNCHANGED nextId
                    /\ IF s.raised
                       THEN CountBroken /\ Call("update", contact_id, "IOError")
                       ELSE CountMutation /\ Call("update", contact_id, "True")

update_contact(contact_id, name, phone, email, category, notes, io) ==
    /\ MayFail(io)
    /\ LET i == IndexOfId(contacts, contact_id)
       IN  IF i = 0
           THEN /\ io = "ok"
                /\ UNCHANGED <<contacts, undo_stack, store_file, backups, now,
                               nextId, faults, muts, undos>>
                /\ Call("update", contact_id, "False")
           ELSE LET t == Clock(now)
                    old_contact == contacts[i]
                    contact == Contact(old_contact.id, name, phone, email,
                                       category, notes, t)
                    cs == [contacts EXCEPT ![i] = contact]
                    s == save_contacts(cs, store_file, backups, t, io)
                IN  /\ undo_stack' =
                           DequeAppend(undo_stack,
                                       <<"update", old_contact, contact>>)
                    /\ contacts' = cs
                    /\ Saved(s)
                    /\ UNCHANGED nextId
                    /\ IF s.raised
                       THEN CountBroken /\ Call("update", contact_id, "IOError")
                       ELSE CountMutation /\ Call("update", contact_id, "True")

(***************************************************************************)
(* delete_contact                                                          *)
(***************************************************************************)
delete_contact(contact_id, io) ==
    /\ MayFail(io)
    /\ LET i == IndexOfId(contacts, contact_id)
       IN  IF i = 0
           THEN /\ io = "ok"
                /\ UNCHANGED <<contacts, undo_stack, store_file, backups, now,
                               nextId, faults, muts, undos>>
                /\ Call("delete", contact_id, "False")
           ELSE LET cs == RemoveAt(contacts, i)
                    s == save_contacts(cs, store_file, backups, now, io)
                IN  /\ undo_stack' = DequeAppend(undo_stack,
                                                 <<"delete", contacts[i]>>)
                    /\ contacts' = cs
                    /\ Saved(s)
                    /\ UNCHANGED nextId
                    /\ IF s.raised
                       THEN CountBroken /\ Call("delete", contact_id, "IOError")
                       ELSE CountMutation /\ Call("delete", contact_id, "True")

(***************************************************************************)
(* undo                                                                    *)
(***************************************************************************)
\* Reversed with the comparison of the 'add' branch inverted (== for !=)
Reversed_Inverted(cs, action) ==
    IF action[1] = "add"
    THEN SelectSeq(cs, LAMBDA c : c.id = action[2].id)
    ELSE IF action[1] = "delete"
    THEN Append(cs, action[2])
    ELSE IF action[1] = "update"
    THEN [i \in DOMAIN cs |->
             IF cs[i].id = action[3].id THEN action[2] ELSE cs[i]]
    ELSE IF action[1] = "import"
    THEN LET imported_ids == Ids(action[2])
         IN  SelectSeq(cs, LAMBDA c : c.id \notin imported_ids)
    ELSE cs

\* Reversed with the record of a 'delete' put back at the front of the list
Reversed_Front(cs, action) ==
    IF action[1] = "add"
    THEN SelectSeq(cs, LAMBDA c : c.id # action[2].id)
    ELSE IF action[1] = "delete"
    THEN <<action[2]>> \o cs
    ELSE IF action[1] = "update"
    THEN [i \in DOMAIN cs |->
             IF cs[i].id = action[3].id THEN action[2] ELSE cs[i]]
    ELSE IF action[1] = "import"
    THEN LET imported_ids == Ids(action[2])
         IN  SelectSeq(cs, LAMBDA c : c.id \notin imported_ids)
    ELSE cs

\* the list after the popped action has been reversed
Reversed(cs, action) ==
    IF action[1] = "add"
    THEN SelectSeq(cs, LAMBDA c : c.id # action[2].id)
    ELSE IF action[1] = "delete"
    THEN Append(cs, action[2])
    ELSE IF action[1] = "update"
    THEN [i \in DOMAIN cs |->
             IF cs[i].id = action[3].id THEN action[2] ELSE cs[i]]
    ELSE IF action[1] = "import"
    THEN LET imported_ids == Ids(action[2])
         IN  SelectSeq(cs, LAMBDA c : c.id \notin imported_ids)
    ELSE cs

undo(io) ==
    /\ MayFail(io)
    /\ IF undo_stack = <<>>
       THEN /\ io = "ok"
            /\ UNCHANGED <<contacts, undo_stack, store_file, backups, now,
                           nextId, faults, muts, undos>>
            /\ Call("undo", <<>>, "False")
       ELSE LET action == undo_stack[Len(undo_stack)]
                cs == Reversed(contacts, action)
                s == save_contacts(cs, store_file, backups, now, io)
            IN  /\ undo_stack' = SubSeq(undo_stack, 1, Len(undo_stack) - 1)
                /\ contacts' = cs
                /\ Saved(s)
                /\ UNCHANGED nextId
                /\ IF s.raised
                   THEN CountBroken /\ Call("undo", action, "IOError")
                   ELSE CountUndo /\ Call("undo", action, "True")

(***************************************************************************)
(* import_from_csv.  A CSV file is [readable, rows]; a row is the dict     *)
(* csv.DictReader yields: the optional columns may be missing.             *)
(***************************************************************************)
\* the value csv.DictReader gives to the cells a short line does not have
\* (restval=None); no character has code -1
NoneCell == <<-1>>

\* the loop over the rows: is_duplicate looks at self.contacts, which the
\* loop does not change; the surviving rows are collected in acc.
\* uuid.uuid4() and datetime.now() are evaluated for every surviving row
\* (they are arguments of row.get); an unused uuid is not counted.
\* validate_inputs calls .strip() on its arguments: on a None cell this
\* raises AttributeError, which ends the loop (raised).
RECURSIVE ImportRows(_, _, _, _, _)
ImportRows(rows, cs, acc, id, t) ==
    IF rows = <<>>
    THEN [imported |-> acc, nextId |-> id, now |-> t, raised |-> FALSE]
    ELSE LET row == Head(rows)
             email == Get(row, "email", StrEmpty)
         IN  IF NoneCell \in {row.name, row.phone, email}
             THEN [imported |-> acc, nextId |-> id, now |-> t,
                   raised |-> TRUE]
             ELSE IF validate_inputs(row.name, row.phone, email) # ""
             THEN ImportRows(Tail(rows), cs, acc, id, t)
             ELSE IF is_duplicate(cs, row.name, row.phone, email)
             THEN ImportRows(Tail(rows), cs, acc, id, t)
             ELSE LET t1 == Clock(t)
                      contact ==
                          Contact(Get(row, "id", id), row.name, row.phone,
                                  email, Get(row, "category", CatOther),
                                  Get(row, "notes", StrEmpty),
                                  Get(row, "last_modified", t1))
                  IN  ImportRows(Tail(rows), cs, Append(acc, contact),
                                 IF "id" \in DOMAIN row THEN id ELSE id + 1,
                                 t1)

import_from_csv(csv, io) ==
    /\ MayFail(io)
    /\ IF ~csv.readable
       THEN /\ io = "ok"
            /\ UNCHANGED <<contacts, undo_stack, store_file, backups, now,
                           nextId, faults, muts, undos>>
            /\ Call("import", csv, "False")
       ELSE LET r == ImportRows(csv.rows, contacts, <<>>, nextId, now)
                imported_contacts == r.imported
            IN  /\ nextId' = r.nextId
                /\ IF r.raised
                   THEN \* AttributeError is not caught by 'except IOError'
                        /\ io = "ok"
                        /\ now' = r.now
                        /\ UNCHANGED <<contacts, undo_stack, store_file,
                                       backups, faults, muts, undos>>
                        /\ Call("import", csv, "AttributeError")
                   ELSE IF imported_contacts = <<>>
                   THEN /\ io = "ok"
                        /\ now' = r.now
                        /\ UNCHANGED <<contacts, undo_stack, store_file,
                                       backups, faults, muts, undos>>
                        /\ Call("import", csv, "True")
                   ELSE LET cs == contacts \o imported_contacts
                            s == save_contacts(cs, store_file, backups,
                                               r.now, io)
                        IN  /\ undo_stack' =
                                   DequeAppend(undo_stack,
                                               <<"import", imported_contacts>>)
                            /\ contacts' = cs
                            /\ Saved(s)
                            /\ IF s.raised
                               THEN CountBroken /\
                                    Call("import", csv, "False")
                               ELSE CountMutation /\
                                    Call("import", csv, "True")

(***************************************************************************)
(* restore_backup.  backup is the content of the file at backup_filename.  *)
(***************************************************************************)
restore_backup(backup, io) ==
    /\ MayFail(io)
    /\ IF backup.kind # "list"
       THEN \* open fails, json.load fails, or the JSON value is not a list
            /\ io = "ok"
            /\ UNCHANGED <<contacts, undo_stack, store_file, backups, now,
                           nextId, faults, muts, undos>>
            /\ Call("restore", backup, "False")
       ELSE LET cs == backup.data
                s == save_contacts(cs, store_file, backups, now, io)
            IN  /\ undo_stack' = DequeAppend(undo_stack,
                                             <<"restore", contacts>>)
                /\ contacts' = cs
                /\ Saved(s)
                /\ UNCHANGED nextId
                /\ IF s.raised
                   THEN CountBroken /\ Call("restore", backup, "False")
                   ELSE CountMutation /\ Call("restore", backup, "True")

(***************************************************************************)
(* The inputs the model draws from.                                        *)
(***************************************************************************)
\* (name, phone, email) of add_contact and update_contact
AddInputs ==
    { <<StrAl, PhoneA, MailA>>,
      <<StrAlLower, PhoneB, StrEmpty>>,      \* Al's name in lower case
      <<StrBo, PhoneASpaced, StrEmpty>>,     \* Al's number, other formatting
      <<StrBo, PhoneB, MailAUpper>> }        \* Al's email in upper case

UpdateInputs ==
    { <<StrBo, PhoneB, StrEmpty, CatWork>>,
      <<StrAl, PhoneA, MailA, CatOther>> }

\* rows of CSV files
RowAl == [name |-> StrAl, phone |-> PhoneA]
RowBo == [name |-> StrBo, phone |-> PhoneB]
RowNoPlus == [name |-> StrCy, phone |-> PhoneNoPlus]
\* a line with one cell only: the phone cell is None
RowShort == [name |-> StrBo, phone |-> NoneCell]
\* a row of an exported file: all seven columns
RowExported(id) ==
    [id |-> id, name |-> StrBo, phone |-> PhoneB, email |-> StrEmpty,
     category |-> CatWork, notes |-> StrEmpty, last_modified |-> 0]

\* the ids a CSV file or a store file may carry: those handed out so far
KnownIds == 0..(nextId - 1)

\* the ids update_contact and delete_contact are called with: those of the
\* records of the list, and one that no record has
CallIds == Ids(contacts) \cup {nextId}

CsvFiles ==
    { [readable |-> FALSE, rows |-> <<>>],
      [readable |-> TRUE, rows |-> <<RowAl, RowBo, RowNoPlus>>],
      [readable |-> TRUE, rows |-> <<RowAl, RowAl>>],
      [readable |-> TRUE, rows |-> <<RowAl, RowShort>>] }
    \cup { [readable |-> TRUE, rows |-> <<RowExported(id)>>] : id \in KnownIds }

\* the record of the store file the program may start with
InitContact == Contact(0, StrCy, PhoneC, StrEmpty, CatOther, StrEmpty, 0)

\* the store file at construction: none, one that does not parse, or a list
\* written by save_contacts (all seven fields present)
InitFiles == {Absent, Corrupt, ListFile(<<InitContact>>)}

\* the files restore_backup may be pointed at: the backups made so far, a
\* path that does not exist, and a JSON file that holds an object
RestoreFiles == {backups[s] : s \in DOMAIN backups} \cup {Absent, NotAList}

(***************************************************************************)
(* Specification.                                                          *)
(***************************************************************************)
Init ==
    /\ store_file \in InitFiles
    /\ LET r == load_contacts(store_file, 1, 0)
       IN  contacts = r.contacts /\ nextId = r.nextId /\ now = r.now
    /\ undo_stack = <<>>
    /\ backups = <<>>
    /\ faults = 0
    /\ last = NoCall
    /\ muts = 0
    /\ undos = 0
    /\ gui = NoWindow

\* the broad specification stops reading the clock at MaxTime and drawing
\* uuids at MaxIds
TimeLeft == now < MaxTime
IdsLeft == nextId <= MaxIds

AddStep ==
    /\ TimeLeft
    /\ IdsLeft
    /\ \E in \in AddInputs, io \in IoOutcomes :
           add_contact(in[1], in[2], in[3], CatOther, StrEmpty, io)
    /\ UNCHANGED gui

UpdateStep ==
    /\ TimeLeft
    /\ \E id \in CallIds, in \in UpdateInputs, io \in IoOutcomes :
           update_contact(id, in[1], in[2], in[3], in[4], StrEmpty, io)
    /\ UNCHANGED gui

DeleteStep ==
    /\ TimeLeft
    /\ \E id \in CallIds, io \in IoOutcomes : delete_contact(id, io)
    /\ UNCHANGED gui

UndoStep ==
    /\ TimeLeft
    /\ \E io \in IoOutcomes : undo(io)
    /\ UNCHANGED gui

ImportStep ==
    /\ TimeLeft
    /\ IdsLeft
    /\ \E csv \in CsvFiles, io \in IoOutcomes : import_from_csv(csv, io)
    /\ UNCHANGED gui

RestoreStep ==
    /\ TimeLeft
    /\ \E backup \in RestoreFiles, io \in IoOutcomes :
           restore_backup(backup, io)
    /\ UNCHANGED gui

Next ==
    \/ AddStep
    \/ UpdateStep
    \/ DeleteStep
    \/ UndoStep
    \/ ImportStep
    \/ RestoreStep

Spec == Init /\ [][Next]_vars

(***************************************************************************)
(* Only add_contact and import_from_csv are called.                        *)
(***************************************************************************)
NextAddImport ==
    \/ AddStep
    \/ ImportStep

SpecAddImport == Init /\ [][NextAddImport]_vars

(***************************************************************************)
(* The deep scenario: ScenarioMutations successful mutations in a row,     *)
(* then undo until it returns False.  The disk does not fail.              *)
(***************************************************************************)
Mutating == muts < ScenarioMutations /\ undos = 0 /\ last.op # "undo"

\* the newest backup file
LatestBackup ==
    backups[CHOOSE s \in DOMAIN backups : \A r \in DOMAIN backups : r <= s]

ScenarioAdd ==
    /\ Mutating
    /\ ~is_duplicate(contacts, StrAl, PhoneA, MailA)
    /\ add_contact(StrAl, PhoneA, MailA, CatOther, StrEmpty, "ok")
    /\ UNCHANGED gui

ScenarioDelete ==
    /\ Mutating
    /\ contacts # <<>>
    /\ delete_contact(contacts[1].id, "ok")
    /\ UNCHANGED gui

ScenarioRestore ==
    /\ Mutating
    /\ DOMAIN backups # {}
    /\ LatestBackup.kind = "list"
    /\ restore_backup(LatestBackup, "ok")
    /\ UNCHANGED gui

ScenarioUndo ==
    /\ muts = ScenarioMutations
    /\ undo("ok")
    /\ UNCHANGED gui

NextScenario ==
    \/ ScenarioAdd
    \/ ScenarioDelete
    \/ ScenarioRestore
    \/ ScenarioUndo

SpecScenario == Init /\ [][NextScenario]_vars

(***************************************************************************)
(* Saving and loading again: the store is saved (by save_contacts called   *)
(* directly, or by add_contact or restore_backup) and a ContactManager is  *)
(* constructed again on the same file.  The backup files restore_backup is *)
(* pointed at may hold dicts written by an older version, without the      *)
(* optional keys.                                                          *)
(***************************************************************************)
\* a dict without 'id', 'category', 'notes' and 'last_modified'
LegacyDict == [name |-> StrBo, phone |-> PhoneB, email |-> StrEmpty]
\* a dict without 'notes' and 'last_modified'
PartialDict ==
    [id |-> 0, name |-> StrAl, phone |-> PhoneA, email |-> MailA,
     category |-> CatWork]

LegacyFiles ==
    { ListFile(<<LegacyDict>>),
      ListFile(<<PartialDict, LegacyDict>>),
      ListFile(<<InitContact, LegacyDict>>) }

\* save_contacts() called on its own
SaveCall(io) ==
    /\ MayFail(io)
    /\ LET s == save_contacts(contacts, store_file, backups, now, io)
       IN  /\ Saved(s)
           /\ UNCHANGED <<contacts, undo_stack, nextId, muts, undos, gui>>
           /\ Call("save", <<>>, IF s.raised THEN "IOError" ELSE "None")

\* ContactManager(filename): a new manager on the same store file
Reconstruct ==
    LET r == load_contacts(store_file, nextId, now)
    IN  /\ contacts' = r.contacts
        /\ undo_stack' = <<>>
        /\ nextId' = r.nextId
        /\ now' = r.now
        /\ UNCHANGED <<store_file, backups, faults, muts, undos, gui>>
        /\ Call("load", <<>>, load_contacts_raises(store_file))

\* a manager has been constructed and its process is running: the
\* constructor did not raise, and the process has not died since
ManagerExists ==
    /\ ~(last.op = "load" /\ last.ret # "None")
    /\ last.ret # "crash"

\* where the process may die inside save_contacts: before anything is done,
\* while shutil.copy writes the backup, after the copy and before the store
\* file is opened, and after open(..., 'w') has truncated the store file
\* while json.dump writes
CrashPoints == {"start", "copy", "copied", "write"}

\* save_contacts with the store file opened for writing before the backup
\* is copied
save_contacts_crashed_OpenFirst(file, bks, t, point) ==
    LET exists == file.kind # "absent"
        t1 == IF exists /\ point # "start" THEN Clock(t) ELSE t
        written == IF point = "start" THEN file ELSE Corrupt
        bks1 == IF exists /\ point # "start"
                THEN [s \in DOMAIN bks \cup {Stamp(t1)} |->
                         IF s = Stamp(t1) THEN Corrupt ELSE bks[s]]
                ELSE bks
    IN  [file |-> written, backups |-> bks1, now |-> t1]

\* what save_contacts leaves on disk when the process dies at point: a file
\* that was being written holds a part of what was to be written
save_contacts_crashed(file, bks, t, point) ==
    LET exists == file.kind # "absent"
        t1 == IF exists /\ point # "start" THEN Clock(t) ELSE t
        copy == IF point = "copy" THEN Corrupt ELSE file
        bks1 == IF exists /\ point # "start"
                THEN [s \in DOMAIN bks \cup {Stamp(t1)} |->
                         IF s = Stamp(t1) THEN copy ELSE bks[s]]
                ELSE bks
    IN  [file |-> IF point = "write" THEN Corrupt ELSE file,
         backups |-> bks1, now |-> t1]

\* the process dies inside save_contacts()
SaveCrash(point) ==
    /\ point \in {"copy", "copied"} => store_file.kind # "absent"
    /\ LET s == save_contacts_crashed(store_file, backups, now, point)
       IN  /\ store_file' = s.file
           /\ backups' = s.backups
           /\ now' = s.now
    /\ UNCHANGED <<contacts, undo_stack, nextId, faults, muts, undos, gui>>
    /\ Call("save", point, "crash")

InitRoundTrip ==
    /\ store_file \in InitFiles \cup LegacyFiles
                      \cup {NotAList, NotUtf8, ListOfNonDicts}
    /\ LET r == load_contacts(store_file, 1, 0)
       IN  contacts = r.contacts /\ nextId = r.nextId /\ now = r.now
    /\ undo_stack = <<>>
    /\ backups = <<>>
    /\ faults = 0
    /\ last = IF load_contacts_raises(store_file) = "None"
              THEN NoCall
              ELSE [NoCall EXCEPT !.op = "load",
                                  !.ret = load_contacts_raises(store_file),
                                  !.store_file = store_file]
    /\ muts = 0
    /\ undos = 0
    /\ gui = NoWindow

SaveStep ==
    /\ ManagerExists
    /\ TimeLeft
    /\ \E io \in IoOutcomes : SaveCall(io)

ReconstructStep ==
    /\ TimeLeft
    /\ IdsLeft
    /\ Reconstruct

SaveCrashStep ==
    /\ ManagerExists
    /\ TimeLeft
    /\ \E point \in CrashPoints : SaveCrash(point)

RestoreLegacyStep ==
    /\ ManagerExists
    /\ TimeLeft
    /\ \E backup \in LegacyFiles, io \in IoOutcomes :
           restore_backup(backup, io)
    /\ UNCHANGED gui

NextRoundTrip ==
    \/ SaveStep
    \/ SaveCrashStep
    \/ ReconstructStep
    \/ RestoreLegacyStep
    \/ (ManagerExists /\ AddStep)

SpecRoundTrip == InitRoundTrip /\ [][NextRoundTrip]_vars

(***************************************************************************)
(* The calls over a longer run, on a disk that does not fail: long enough  *)
(* for an import or an add, then a mutation, then undo.                    *)
(***************************************************************************)
LongTimeLeft == now < LongTime

LongAdd ==
    /\ LongTimeLeft
    /\ IdsLeft
    /\ \E in \in AddInputs :
           add_contact(in[1], in[2], in[3], CatOther, StrEmpty, "ok")
    /\ UNCHANGED gui

LongUpdate ==
    /\ LongTimeLeft
    /\ \E id \in CallIds, in \in UpdateInputs :
           update_contact(id, in[1], in[2], in[3], in[4], StrEmpty, "ok")
    /\ UNCHANGED gui

LongDelete ==
    /\ LongTimeLeft
    /\ \E id \in CallIds : delete_contact(id, "ok")
    /\ UNCHANGED gui

LongUndo ==
    /\ LongTimeLeft
    /\ undo("ok")
    /\ UNCHANGED gui

LongImport ==
    /\ LongTimeLeft
    /\ IdsLeft
    /\ \E csv \in CsvFiles : import_from_csv(csv, "ok")
    /\ UNCHANGED gui

LongRestore ==
    /\ LongTimeLeft
    /\ \E backup \in RestoreFiles : restore_backup(backup, "ok")
    /\ UNCHANGED gui

NextLong ==
    \/ LongAdd
    \/ LongUpdate
    \/ LongDelete
    \/ LongUndo
    \/ LongImport
    \/ LongRestore

SpecLong == Init /\ [][NextLong]_vars

(***************************************************************************)
(* The queries: validate_inputs, is_duplicate, view_contacts,              *)
(* search_contacts, filter_by_category, export_to_csv.                     *)
(***************************************************************************)
\* 'term in text' of Python: term occurs in text as a contiguous run
IsSubstring(term, text) ==
    \E k \in 0..(Len(text) - Len(term)) :
        SubSeq(text, k + 1, k + Len(term)) = term

\* the fields search_contacts looks at when field is 'all'
SearchedFields == {"name", "phone", "email", "category", "notes"}

\* search_contacts without line 234: the term is compared as typed
search_contacts_CaseSensitive(cs, search_term, field) ==
    SelectSeq(cs, LAMBDA contact :
        IF field = "all"
        THEN \E f \in SearchedFields : IsSubstring(search_term, Lower(contact[f]))
        ELSE IsSubstring(search_term, Lower(contact[field])))

search_contacts(cs, search_term, field) ==
    LET term == Lower(search_term)
    IN  SelectSeq(cs, LAMBDA contact :
            IF field = "all"
            THEN \/ IsSubstring(term, Lower(contact.name))
                 \/ IsSubstring(term, Lower(contact.phone))
                 \/ IsSubstring(term, Lower(contact.email))
                 \/ IsSubstring(term, Lower(contact.category))
                 \/ IsSubstring(term, Lower(contact.notes))
            ELSE IsSubstring(term, Lower(contact[field])))

\* 'All' of filter_by_category
CatAll == <<65, 108, 108>>

filter_by_category(cs, category) ==
    IF category = CatAll
    THEN cs
    ELSE SelectSeq(cs, LAMBDA contact : contact.category = category)

\* a call that only computes a result: nothing is assigned
Query(op, arg, ret) ==
    /\ Call(op, arg, ret)
    /\ UNCHANGED <<contacts, undo_stack, store_file, backups, now, nextId,
                   faults, muts, undos, gui>>

validate_inputs_call(name, phone, email) ==
    Query("validate", <<name, phone, email>>,
          IF validate_inputs(name, phone, email) = "" THEN "True" ELSE "False")

is_duplicate_call(name, phone, email) ==
    Query("is_duplicate", <<name, phone, email>>,
          IF is_duplicate(contacts, name, phone, email)
          THEN "True" ELSE "False")

view_contacts_call == Query("view", contacts, "list")

search_contacts_call(search_term, field) ==
    Query("search",
          <<search_term, field, search_contacts(contacts, search_term, field)>>,
          "list")

filter_by_category_call(category) ==
    Query("filter", <<category, filter_by_category(contacts, category)>>,
          "list")

\* what a file written by export_to_csv holds: a header line and one line
\* per contact (not JSON)
CsvFile(cs) == [kind |-> "csv", data |-> cs]

\* export_to_csv(csv_filename).  The path is that of another file ("other")
\* or that of the store file itself ("store"); no check tells them apart.
\* io "open": open(csv_filename, 'w') fails; "write": a writerow fails.
export_to_csv(path, io) ==
    /\ MayFail(io)
    /\ io # "copy"
    /\ store_file' =
           IF path # "store" \/ io = "open" THEN store_file
           ELSE IF io = "write" THEN Corrupt
           ELSE CsvFile(contacts)
    /\ faults' = IF io = "ok" THEN faults ELSE faults + 1
    /\ UNCHANGED <<contacts, undo_stack, backups, now, nextId, muts, undos,
                   gui>>
    /\ Call("export", path, IF io = "ok" THEN "True" ELSE "False")

\* the inputs of the queries
ValidateInputs ==
    AddInputs \cup
        { <<StrEmpty, PhoneA, StrEmpty>>,
          <<StrB2, PhoneA, StrEmpty>>,
          <<StrAl, PhoneNoPlus, StrEmpty>>,
          <<StrAl, PhoneLong, StrEmpty>>,
          <<StrAl, PhoneA, MailBad>> }

\* "" (matches every text), "B" (Bo, a@b, Boss), "12" (every phone), "WORK"
SearchTerms == {StrEmpty, <<66>>, <<49, 50>>, <<87, 79, 82, 75>>}

ValidateStep ==
    \E in \in ValidateInputs : validate_inputs_call(in[1], in[2], in[3])

IsDuplicateStep ==
    \E in \in AddInputs : is_duplicate_call(in[1], in[2], in[3])

SearchStep ==
    \E term \in SearchTerms, field \in SearchedFields \cup {"all"} :
        search_contacts_call(term, field)

FilterStep ==
    \E category \in {CatAll, CatOther, CatWork} :
        filter_by_category_call(category)

ExportStep ==
    \E path \in {"other", "store"}, io \in IoOutcomes : export_to_csv(path, io)

\* (category, notes) add_contact is called with: Al is added with a category
\* and a note of his own, the others with the defaults
NoteBoss == <<66, 111, 115, 115>>     \* "Boss"
AddExtras(name) ==
    IF name = StrAl THEN <<CatWork, NoteBoss>> ELSE <<CatOther, StrEmpty>>

\* add_contact on a disk that does not fail
AddOkStep ==
    /\ TimeLeft
    /\ IdsLeft
    /\ \E in \in AddInputs :
           add_contact(in[1], in[2], in[3], AddExtras(in[1])[1],
                       AddExtras(in[1])[2], "ok")
    /\ UNCHANGED gui

NextQueries ==
    \/ AddOkStep
    \/ ValidateStep
    \/ IsDuplicateStep
    \/ view_contacts_call
    \/ SearchStep
    \/ FilterStep
    \/ ExportStep

SpecQueries == Init /\ [][NextQueries]_vars

(***************************************************************************)
(* Mutations, then undos: on a store that starts with one record and an    *)
(* empty undo stack, any mix of the five mutations is called, and from the *)
(* first call of undo on only undo is called.  The disk does not fail.     *)
(***************************************************************************)
\* the list the manager starts with
BaseContacts == <<InitContact>>

\* a backup file left by an earlier session, made when the store held Al
EarlierBackup ==
    ListFile(<<Contact(0, StrAl, PhoneA, MailA, CatOther, StrEmpty, 0)>>)

InitUndoAll ==
    /\ Init
    /\ store_file = ListFile(BaseContacts)

\* undo has not been called yet
Building == undos = 0 /\ last.op # "undo"

MixAdd == Building /\ LongAdd
MixUpdate == Building /\ LongUpdate
MixDelete == Building /\ LongDelete
MixImport == Building /\ LongImport
\* restore_backup is pointed at a backup made by this manager, at no file,
\* at a file that holds no list, or at a backup an earlier session left
MixRestore ==
    /\ Building
    /\ LongTimeLeft
    /\ \E backup \in RestoreFiles \cup {EarlierBackup} :
           restore_backup(backup, "ok")
    /\ UNCHANGED gui
MixUndo == undo("ok") /\ UNCHANGED gui

NextUndoAll ==
    \/ MixAdd
    \/ MixUpdate
    \/ MixDelete
    \/ MixImport
    \/ MixRestore
    \/ MixUndo

SpecUndoAll == InitUndoAll /\ [][NextUndoAll]_vars

(***************************************************************************)
(* The window (ContactManagerGUI).  A handler calls the manager and, when  *)
(* the call succeeded, fills the table again; the fields of the window are *)
(* current_page, the three search widgets and the list the table was last  *)
(* filled from.  The disk does not fail.                                   *)
(***************************************************************************)
\* (len(contacts) + contacts_per_page - 1) // contacts_per_page
PageCount(n) == (n + ContactsPerPage - 1) \div ContactsPerPage

\* contacts[start:end] of update_contact_table: the rows the table shows
Rows(g) ==
    LET start == (g.current_page - 1) * ContactsPerPage
        end == start + ContactsPerPage
    IN  IF start >= Len(g.listed)
        THEN <<>>
        ELSE SubSeq(g.listed, start + 1,
                    IF end < Len(g.listed) THEN end ELSE Len(g.listed))

\* update_contact_table(contacts): current_page is used as it is
update_contact_table(g, cs) == [g EXCEPT !.listed = cs]

\* get_filtered_contacts: a search term replaces the category filter
get_filtered_contacts(cs, g) ==
    LET search_term == Strip(g.search_entry)
    IN  IF search_term # <<>>
        THEN search_contacts(cs, search_term, g.search_field)
        ELSE filter_by_category(cs, g.category_filter)

\* the window after ContactManagerGUI.__init__
WindowOn(cs) ==
    [current_page |-> 1, search_entry |-> StrEmpty, search_field |-> "all",
     category_filter |-> CatAll, listed |-> cs]

\* a handler that calls no method of the manager that changes it
WindowOnly ==
    /\ Call("window", <<>>, "None")
    /\ UNCHANGED <<contacts, undo_stack, store_file, backups, now, nextId,
                   faults, muts, undos>>

\* the table is filled from the filtered list when the call returned ret
RefreshedWhen(ret) ==
    gui' = IF last'.ret = ret
           THEN update_contact_table(gui,
                                     get_filtered_contacts(contacts', gui))
           ELSE gui

\* ContactManagerGUI.add_contact; yes is the answer to "Add anyway?"
gui_add_contact(name_entry, phone_entry, email_entry, category, notes, yes) ==
    LET name == Strip(name_entry)
        phone == Strip(phone_entry)
        email == Strip(email_entry)
    IN  IF validate_inputs(name, phone, email) # ""
        THEN Query("gui_add", <<name, phone, email>>, "invalid")
        ELSE IF is_duplicate(contacts, name, phone, email) /\ ~yes
        THEN Query("gui_add", <<name, phone, email>>, "cancelled")
        ELSE /\ add_contact(name, phone, email, category, Strip(notes), "ok")
             /\ gui' = IF last'.ret = "contact"
                       THEN update_contact_table(gui, contacts')
                       ELSE gui

\* ContactManagerGUI.delete_contact on the row-th row of the table (0: no
\* row is selected); yes is the answer to "Are you sure?"
gui_delete_contact(row, yes) ==
    IF row = 0
    THEN Query("gui_delete", 0, "no selection")
    ELSE IF ~yes
    THEN Query("gui_delete", row, "cancelled")
    ELSE /\ delete_contact(Rows(gui)[row].id, "ok")
         /\ RefreshedWhen("True")

undo_action ==
    /\ undo("ok")
    /\ RefreshedWhen("True")

gui_import_from_csv(csv) ==
    /\ import_from_csv(csv, "ok")
    /\ RefreshedWhen("True")

\* ContactManagerGUI.restore_backup: stamp names one of the backup files
\* glob finds
gui_restore_backup(stamp) ==
    /\ restore_backup(backups[stamp], "ok")
    /\ RefreshedWhen("True")

prev_page ==
    /\ WindowOnly
    /\ gui' = IF gui.current_page > 1
              THEN LET g == [gui EXCEPT !.current_page = @ - 1]
                   IN  update_contact_table(
                           g, get_filtered_contacts(contacts, g))
              ELSE gui

next_page ==
    /\ WindowOnly
    /\ LET cs == get_filtered_contacts(contacts, gui)
           max_pages == PageCount(Len(cs))
       IN  gui' = IF gui.current_page < max_pages
                  THEN update_contact_table(
                           [gui EXCEPT !.current_page = @ + 1], cs)
                  ELSE gui

\* <KeyRelease> in the search entry, which then holds term: search_contacts
gui_search_contacts(term) ==
    /\ WindowOnly
    /\ gui' = LET g == [gui EXCEPT !.search_entry = term,
                                   !.current_page = 1]
              IN  update_contact_table(g, get_filtered_contacts(contacts, g))

\* <<ComboboxSelected>> of the category filter: search_contacts
gui_filter_category(category) ==
    /\ WindowOnly
    /\ gui' = LET g == [gui EXCEPT !.category_filter = category,
                                   !.current_page = 1]
              IN  update_contact_table(g, get_filtered_contacts(contacts, g))

\* the search field combobox is set; no handler is bound to it
gui_select_field(field) ==
    /\ WindowOnly
    /\ gui' = [gui EXCEPT !.search_field = field]

clear_search ==
    /\ WindowOnly
    /\ gui' = WindowOn(contacts)

InitGui ==
    /\ store_file \in InitFiles
    /\ LET r == load_contacts(store_file, 1, 0)
       IN  contacts = r.contacts /\ nextId = r.nextId /\ now = r.now
    /\ undo_stack = <<>>
    /\ backups = <<>>
    /\ faults = 0
    /\ last = NoCall
    /\ muts = 0
    /\ undos = 0
    /\ gui = WindowOn(contacts)

\* what is typed into the entries: the inputs of add_contact, and Al's with
\* blanks around the name
GuiAddInputs ==
    AddInputs \cup { <<<<32, 65, 108, 32>>, PhoneA, MailA>>,
                     <<StrEmpty, PhoneA, StrEmpty>> }

GuiAddStep ==
    /\ TimeLeft
    /\ IdsLeft
    /\ \E in \in GuiAddInputs, yes \in BOOLEAN :
           gui_add_contact(in[1], in[2], in[3], AddExtras(Strip(in[1]))[1],
                           AddExtras(Strip(in[1]))[2], yes)

GuiDeleteStep ==
    /\ LongTimeLeft
    /\ \E row \in {0} \cup DOMAIN Rows(gui), yes \in BOOLEAN :
           gui_delete_contact(row, yes)

GuiUndoStep ==
    /\ LongTimeLeft
    /\ undo_action

GuiImportStep ==
    /\ TimeLeft
    /\ IdsLeft
    /\ \E csv \in CsvFiles : gui_import_from_csv(csv)

GuiRestoreStep ==
    /\ LongTimeLeft
    /\ \E stamp \in DOMAIN backups : gui_restore_backup(stamp)

GuiSearchStep == \E term \in {StrEmpty, <<66>>} : gui_search_contacts(term)

GuiFilterStep ==
    \E category \in {CatAll, CatWork} : gui_filter_category(category)

GuiFieldStep == \E field \in {"all", "name"} : gui_select_field(field)

NextGui ==
    \/ GuiAddStep
    \/ GuiDeleteStep
    \/ GuiUndoStep
    \/ GuiImportStep
    \/ GuiRestoreStep
    \/ prev_page
    \/ next_page
    \/ GuiSearchStep
    \/ GuiFilterStep
    \/ GuiFieldStep
    \/ clear_search

SpecGui == InitGui /\ [][NextGui]_vars

(***************************************************************************)
(* Properties.                                                             *)
(***************************************************************************)
\* this step is a call of undo that comes right after a call of op that
\* returned ret
UndoRightAfter(op, ret) ==
    /\ last.op = op
    /\ last.ret = ret
    /\ last'.op = "undo"

\* C1: when add_contact has added a record (it returned the contact) and
\* undo is called next, the undo pops that add: it returns True (unless its
\* save raises IOError, in which case it returns nothing), the list is again
\* the list as it was before the add, in the same order, and no record has
\* the id of the added record.
C1_AddThenUndo ==
    [][UndoRightAfter("add", "contact") =>
           /\ last'.ret \in {"True", "IOError"}
           /\ last'.arg[1] = "add"
           /\ contacts' = last.contacts
           /\ last'.arg[2].id \notin Ids(contacts')]_vars

\* the add of a record into a non-empty list has been undone by the call
\* that followed it (the clock has been read by no call in between)
C1_Witness ==
    /\ last.op = "undo"
    /\ last.ret = "True"
    /\ last.arg[1] = "add"
    /\ now <= last.arg[2].last_modified + 2
    /\ contacts # <<>>
    /\ Len(last.contacts) = Len(contacts) + 1

\* C2: when restore_backup has returned True and undo is called next, the
\* list is again the list as it was immediately before the restore.
C2_RestoreThenUndo ==
    [][(UndoRightAfter("restore", "True") /\ last'.ret = "True") =>
           contacts' = last.contacts]_vars

\* what the reversal of an undo entry is: the record of an add is gone, the
\* record of a delete is back at the end of the list, the record of an
\* update has its former fields, the records of an import are gone, the
\* list of before a restore is back
Reverses(action, before, after) ==
    IF action[1] = "add"
    THEN after = SelectSeq(before, LAMBDA c : c.id # action[2].id)
    ELSE IF action[1] = "delete"
    THEN after = Append(before, action[2])
    ELSE IF action[1] = "update"
    THEN after = [i \in DOMAIN before |->
                     IF before[i].id = action[3].id THEN action[2]
                     ELSE before[i]]
    ELSE IF action[1] = "import"
    THEN after = SelectSeq(before, LAMBDA c : c.id \notin Ids(action[2]))
    ELSE after = action[2]

\* C3: the undo stack never holds more than 10 entries; after 11 successful
\* mutations in a row the stack holds 10 entries, each successful undo
\* removes one, so that exactly 10 undos succeed and the next returns False;
\* the first of these undos reverses the 11th mutation.
C3_UndoLogBound ==
    /\ Len(undo_stack) <= UndoMaxLen
    /\ muts >= UndoMaxLen + 1 =>
        /\ Len(undo_stack) = UndoMaxLen - undos
        /\ (last.op = "undo" /\ last.ret = "False") => undos = UndoMaxLen
        /\ (last.op = "undo" /\ last.ret = "True" /\ undos = 1) =>
               Reverses(last.arg, last.contacts, contacts)

\* C4: undo takes the newest entry off the stack, leaves the entries below
\* it as they were and reverses the mutation the entry stands for; on an
\* empty stack it returns False and changes neither the list nor the file.
C4_UndoIsLifo ==
    last.op = "undo" =>
        IF last.undo_stack = <<>>
        THEN /\ last.ret = "False"
             /\ contacts = last.contacts
             /\ undo_stack = <<>>
             /\ store_file = last.store_file
        ELSE /\ last.arg = last.undo_stack[Len(last.undo_stack)]
             /\ undo_stack =
                    SubSeq(last.undo_stack, 1, Len(last.undo_stack) - 1)
             /\ Reverses(last.arg, last.contacts, contacts)

\* C5: no two records of the list share an id.
C5_UniqueIds ==
    \A i, j \in DOMAIN contacts : contacts[i].id = contacts[j].id => i = j

\* two records match on name or on email ignoring case, or on phone
Matching(a, b) ==
    \/ Lower(a.name) = Lower(b.name)
    \/ a.phone = b.phone
    \/ (a.email # <<>> /\ b.email # <<>> /\ Lower(a.email) = Lower(b.email))

\* C6: when only add_contact and import_from_csv are called, no two records
\* of the list match each other.
C6_NoDuplicates ==
    \A i, j \in DOMAIN contacts :
        i # j => ~Matching(contacts[i], contacts[j])

\* C7: add_contact called with inputs that is_duplicate flags returns None
\* and leaves the list, the undo stack and the store file unchanged.
C7_DuplicateNotAdded ==
    (/\ last.op = "add"
     /\ is_duplicate(last.contacts, last.arg[1], last.arg[2], last.arg[3])) =>
        /\ last.ret = "None"
        /\ contacts = last.contacts
        /\ undo_stack = last.undo_stack
        /\ store_file = last.store_file
        /\ backups = last.backups

\* a duplicate has been offered to a list that has an undo entry
C7_Witness ==
    /\ last.op = "add"
    /\ last.ret = "None"
    /\ last.contacts # <<>>
    /\ last.undo_stack # <<>>

\* C8: update_contact or delete_contact called with an id that no record
\* has returns False and leaves the list, the undo stack, the store file and
\* the backups unchanged.
C8_NotFound ==
    (/\ last.op \in {"update", "delete"}
     /\ last.arg \notin Ids(last.contacts)) =>
        /\ last.ret = "False"
        /\ contacts = last.contacts
        /\ undo_stack = last.undo_stack
        /\ store_file = last.store_file
        /\ backups = last.backups

\* an update has missed in a non-empty list with a non-empty undo stack
C8_Witness ==
    /\ last.op = "update"
    /\ last.ret = "False"
    /\ contacts # <<>>
    /\ undo_stack # <<>>

\* C9: when import_from_csv has added records and undo is called next, the
\* list is again the list of before the import: the batch is gone and every
\* other record is there, unchanged.
C9_ImportThenUndo ==
    [][(/\ UndoRightAfter("import", "True")
        /\ Len(contacts) > Len(last.contacts)
        /\ last'.ret = "True") =>
           contacts' = last.contacts]_vars

\* C10: when restore_backup returns False, the list and the undo stack are
\* as they were before the call.
C10_FailedRestore ==
    (last.op = "restore" /\ last.ret = "False") =>
        /\ contacts = last.contacts
        /\ undo_stack = last.undo_stack

\* the call recorded in last is an add_contact whose inputs validate_inputs
\* accepts and that stored its record
AddedValid ==
    /\ last.op = "add"
    /\ last.ret = "contact"
    /\ validate_inputs(last.arg[1], last.arg[2], last.arg[3]) = ""

\* the records a successful import_from_csv appended to the list
ImportedBatch ==
    SubSeq(contacts, Len(last.contacts) + 1, Len(contacts))

\* C11: the record stored by an add_contact whose inputs pass validate_inputs
\* has as phone the E.164 form of the phone passed in, and every record
\* appended by import_from_csv has a phone that is its own E.164 form; so
\* two accepted inputs that denote one number are stored as one string.
C11_CanonicalPhone ==
    /\ AddedValid =>
           contacts[Len(contacts)].phone = FormatE164(last.arg[2])
    /\ (last.op = "import" /\ last.ret = "True") =>
           \A i \in DOMAIN ImportedBatch :
               ImportedBatch[i].phone = FormatE164(ImportedBatch[i].phone)

\* a name no record of the model has
StrDi == <<68, 105>>                  \* "Di"

\* the phone texts is_duplicate is asked about
PhoneTexts == {PhoneA, PhoneASpaced, PhoneB, PhoneC}

\* two texts that parse to the same number
SameNumber(p, q) ==
    /\ ~ParseFails(p)
    /\ ~ParseFails(q)
    /\ FormatE164(p) = FormatE164(q)

\* C12: right after add_contact has stored a record with a valid phone,
\* is_duplicate called with a name no record has, an empty email and the
\* same number in any formatting returns true.
C12_FormattingInsensitive ==
    AddedValid =>
        \A p \in PhoneTexts :
            SameNumber(p, last.arg[2]) =>
                is_duplicate(contacts, StrDi, p, StrEmpty)

\* the call recorded in last returned success after changing the list: an
\* add that returned the contact, an update, delete, undo or restore that
\* returned True, an import that returned True and appended records
SucceededWithWrite ==
    \/ last.op = "add" /\ last.ret = "contact"
    \/ last.op \in {"update", "delete", "undo", "restore"} /\ last.ret = "True"
    \/ last.op = "import" /\ last.ret = "True" /\
           Len(contacts) > Len(last.contacts)

\* C13: when add, update, delete, undo, restore_backup or an import that
\* appended records has returned success, the store file holds exactly the
\* list that is in memory.
C13_StoreMatchesList ==
    SucceededWithWrite => store_file = ListFile(contacts)

\* an undo has returned True and rewritten a store file that held another
\* list
C13_Witness ==
    /\ last.op = "undo"
    /\ last.ret = "True"
    /\ last.store_file.kind = "list"
    /\ last.store_file # store_file
    /\ contacts # <<>>

\* C14: a call that touches a store file that existed has first copied the
\* former content to a backup file (also when the rewriting then fails);
\* after a call that saved successfully over an existing store file, the
\* backup named after the second of the save holds exactly the content that
\* was replaced; a call that found no store file makes no backup.
C14_BackupBeforeWrite ==
    /\ (last.store_file.kind # "absent" /\ store_file # last.store_file) =>
           \E s \in DOMAIN backups : backups[s] = last.store_file
    /\ (last.store_file.kind # "absent" /\ SucceededWithWrite) =>
           /\ Stamp(now) \in DOMAIN backups
           /\ backups[Stamp(now)] = last.store_file
    /\ last.store_file.kind = "absent" => backups = last.backups

\* a successful call has replaced the list in the store file while an older
\* backup was there
C14_Witness ==
    /\ SucceededWithWrite
    /\ last.store_file.kind = "list"
    /\ store_file # last.store_file
    /\ DOMAIN last.backups # {}
    /\ Stamp(now) \in DOMAIN backups

\* the seven keys of a complete contact dict
ContactFields ==
    {"id", "name", "phone", "email", "category", "notes", "last_modified"}

\* loaded has, record by record and in the same order, every field of saved
\* with the same value
SameOnPresent(saved, loaded) ==
    /\ Len(loaded) = Len(saved)
    /\ \A i \in DOMAIN saved :
           /\ i \in DOMAIN loaded
           /\ \A f \in DOMAIN saved[i] :
                  f \in DOMAIN loaded[i] /\ loaded[i][f] = saved[i][f]
    /\ (\A i \in DOMAIN saved : DOMAIN saved[i] = ContactFields) =>
           loaded = saved

\* the call recorded in last has written the list to the store file
SavedLast ==
    \/ last.op = "save" /\ last.ret = "None"
    \/ SucceededWithWrite

\* C15: when the list has been saved and a manager is then constructed on
\* the same store file, the list it loads has the same records in the same
\* order, every field that was saved with its saved value (the backfilling
\* only adds the keys that were missing); a list of complete records is
\* loaded exactly as saved.
C15_SaveThenLoad ==
    [][(SavedLast /\ last'.op = "load") =>
           SameOnPresent(contacts, contacts')]_vars

\* a list holding a dict without the optional keys has been saved and loaded
\* again, and the loading has filled them in
C15_Witness ==
    /\ last.op = "load"
    /\ last.store_file = ListFile(last.contacts)
    /\ Len(contacts) >= 2
    /\ \E i \in DOMAIN contacts :
           DOMAIN last.contacts[i] # DOMAIN contacts[i]
    /\ \E i \in DOMAIN contacts :
           DOMAIN last.contacts[i] = ContactFields

\* C16: when delete_contact has removed a record (it returned True) and
\* undo is called next, the list holds the records it held before the
\* delete: the other records in their former order, followed by the deleted
\* record with all its fields.
C16_DeleteThenUndo ==
    [][UndoRightAfter("delete", "True") =>
           \E i \in DOMAIN last.contacts :
               /\ last.contacts[i].id = last.arg
               /\ contacts' =
                      SubSeq(last.contacts, 1, i - 1)
                          \o SubSeq(last.contacts, i + 1, Len(last.contacts))
                          \o <<last.contacts[i]>>]_vars

\* the record the store started with has been deleted and put back by undo
\* behind a record that was added after it
C16_Witness ==
    /\ last.op = "undo"
    /\ last.ret = "True"
    /\ last.arg[1] = "delete"
    /\ last.arg[2] = InitContact
    /\ Len(contacts) >= 2
    /\ contacts[Len(contacts)] = InitContact
    /\ contacts[1] # InitContact

\* C17: when update_contact has changed a record (it returned True) and
\* undo is called next, the list is the list of before the update: the
\* record has its former name, phone, email, category, notes and
\* last_modified, its id and its position, and every other record is
\* unchanged.
C17_UpdateThenUndo ==
    [][UndoRightAfter("update", "True") => contacts' = last.contacts]_vars

\* no two records of cs share an id
UniqueIds(cs) == \A i, j \in DOMAIN cs : cs[i].id = cs[j].id => i = j

\* C18: whatever the call (add, update, delete, undo, import, restore), a
\* record whose id is in the list before and after the call has afterwards
\* a last_modified that is not earlier than before (ids being unique in
\* both lists, so that the id names one record).
C18_NeverBackwards ==
    (UniqueIds(last.contacts) /\ UniqueIds(contacts)) =>
        \A i \in DOMAIN last.contacts, j \in DOMAIN contacts :
            last.contacts[i].id = contacts[j].id =>
                contacts[j].last_modified >= last.contacts[i].last_modified

\* every record of before is at the same position of after, with the same
\* id and a last_modified that is not earlier
KeptInPlace(before, after) ==
    \A i \in DOMAIN before :
        /\ i \in DOMAIN after
        /\ after[i].id = before[i].id
        /\ after[i].last_modified >= before[i].last_modified

\* every record of after is a record of before, with all its fields
OnlyRemoved(before, after) ==
    \A j \in DOMAIN after : \E i \in DOMAIN before : after[j] = before[i]

\* C18 as amended: add, update, import and the undo of a delete (or of a
\* restore) leave every record at its position with a last_modified that
\* is not earlier; delete and the undo of an add or of an import only
\* remove records and leave the others untouched.  (The undo of an update
\* and restore_backup are the calls that put back an earlier
\* last_modified.)
C18_BackwardsOnlyByUndoUpdateOrRestore ==
    /\ last.op \in {"add", "update", "import"} =>
           KeptInPlace(last.contacts, contacts)
    /\ last.op = "delete" => OnlyRemoved(last.contacts, contacts)
    /\ (last.op = "undo" /\ last.ret # "False") =>
           /\ last.arg[1] \in {"delete", "restore"} =>
                  KeptInPlace(last.contacts, contacts)
           /\ last.arg[1] \in {"add", "import"} =>
                  OnlyRemoved(last.contacts, contacts)

\* update_contact has given a later last_modified to a record that had been
\* stamped before, in a list of two records or more
C18_Witness ==
    /\ last.op = "update"
    /\ last.ret = "True"
    /\ Len(contacts) >= 2
    /\ \E i \in DOMAIN contacts :
           /\ last.contacts[i].last_modified > 0
           /\ contacts[i].last_modified > last.contacts[i].last_modified

\* the row has all its cells and validate_inputs accepts it
RowPasses(row) ==
    LET email == Get(row, "email", StrEmpty)
    IN  /\ NoneCell \notin {row.name, row.phone, email}
        /\ validate_inputs(row.name, row.phone, email) = ""

\* the rows of a CSV file that pass validate_inputs and that is_duplicate
\* does not flag against the list cs
Survivors(rows, cs) ==
    SelectSeq(rows, LAMBDA row :
        /\ RowPasses(row)
        /\ ~is_duplicate(cs, row.name, row.phone,
                         Get(row, "email", StrEmpty)))

\* the list after the import is the list before it followed by one record
\* for each surviving row, in the order of the rows, with the row's name,
\* phone and email
AddedExactly(rows, before, after) ==
    LET kept == Survivors(rows, before)
    IN  /\ Len(after) = Len(before) + Len(kept)
        /\ SubSeq(after, 1, Len(before)) = before
        /\ \A k \in DOMAIN kept :
               LET c == after[Len(before) + k]
               IN  /\ c.name = kept[k].name
                   /\ c.phone = kept[k].phone
                   /\ c.email = Get(kept[k], "email", StrEmpty)

\* C19: import_from_csv of a readable CSV file returns True and has
\* appended to the list exactly the rows that pass validate_inputs and that
\* is_duplicate does not flag, whatever the other rows are; when no row
\* survives the list is unchanged.
C19_ImportExactly ==
    (last.op = "import" /\ last.arg.readable) =>
        /\ last.ret = "True"
        /\ AddedExactly(last.arg.rows, last.contacts, contacts)
        /\ Survivors(last.arg.rows, last.contacts) = <<>> =>
               contacts = last.contacts

\* C20: when import_from_csv returns False (the CSV file could not be read,
\* or save_contacts failed), the list and the undo stack are as they were
\* before the call.
C20_FailedImport ==
    (last.op = "import" /\ last.ret = "False") =>
        /\ contacts = last.contacts
        /\ undo_stack = last.undo_stack

\* the (name, phone, email) is_duplicate is asked about: the inputs of
\* add_contact, and a name no record has with a phone that does not parse,
\* with a phone in another formatting, and with an email in upper case
Candidates ==
    AddInputs \cup
        { <<StrDi, PhoneNoPlus, StrEmpty>>,
          <<StrDi, PhoneASpaced, StrEmpty>>,
          <<StrDi, PhoneLong, MailAUpper>> }

\* the E.164 form of a phone that parses, the phone itself otherwise
NormalizedOrRaw(phone) ==
    IF ParseFails(phone) THEN phone ELSE FormatE164(phone)

\* C21: is_duplicate returns true exactly when a record of the list has the
\* candidate's name ignoring case, or has as phone the candidate's
\* normalized phone (the raw text when the phone does not parse), or, the
\* candidate's email being non-empty, has that email ignoring case.
C21_DuplicateIff ==
    \A c \in Candidates :
        is_duplicate(contacts, c[1], c[2], c[3]) <=>
            \E r \in Range(contacts) :
                \/ Lower(r.name) = Lower(c[1])
                \/ r.phone = NormalizedOrRaw(c[2])
                \/ (c[3] # <<>> /\ Lower(r.email) = Lower(c[3]))

\* a list of two records, one of them without email: a candidate is flagged
\* through the normalisation of its phone only, and a candidate with an
\* empty email and a phone that does not parse is not flagged
C21_Witness ==
    /\ Len(contacts) >= 2
    /\ \E r \in Range(contacts) : r.email = <<>>
    /\ is_duplicate(contacts, StrDi, PhoneASpaced, StrEmpty)
    /\ ~is_duplicate(contacts, StrDi, PhoneNoPlus, StrEmpty)

\* the operations that are queries
QueryOps ==
    {"validate", "is_duplicate", "view", "search", "filter", "export"}

\* the list, the undo stack and the store file are as before the call
StoreUntouched ==
    /\ contacts = last.contacts
    /\ undo_stack = last.undo_stack
    /\ store_file = last.store_file

\* C22: whatever validate_inputs, is_duplicate, search_contacts,
\* filter_by_category, view_contacts and export_to_csv return, the list, the
\* undo stack and the store file are unchanged by the call.
C22_QueriesArePure ==
    last.op \in QueryOps => StoreUntouched

\* what does hold of the queries: validate_inputs, is_duplicate,
\* search_contacts, filter_by_category and view_contacts leave the list, the
\* undo stack and the store file unchanged, and so does export_to_csv,
\* whether it returns True or False, when it is given the path of another
\* file; given the path of the store file itself it leaves the list and the
\* undo stack unchanged (and overwrites the store file).
QueriesArePureOffStorePath ==
    last.op \in QueryOps =>
        IF last.op = "export" /\ last.arg = "store"
        THEN contacts = last.contacts /\ undo_stack = last.undo_stack
        ELSE StoreUntouched

\* the positions of the list whose record matches: the term, in lower case,
\* occurs in the lower-cased text of the field, or of one of the five
\* searched fields when field is 'all'
MatchingPositions(cs, term, field) ==
    { i \in 1..Len(cs) :
        \E f \in (IF field = "all" THEN SearchedFields ELSE {field}) :
            \E pre, post \in 0..Len(cs[i][f]) :
                /\ pre + Len(term) + post = Len(cs[i][f])
                /\ \A k \in 1..Len(term) :
                       Lower(term)[k] = Lower(cs[i][f])[pre + k] }

\* the k-th smallest member of a set of positions
NthOf(S, k) == CHOOSE i \in S : Cardinality({j \in S : j < i}) = k - 1

\* C23: search_contacts(term, field) returns exactly the records of the list
\* whose field (or, for 'all', one of name, phone, email, category, notes)
\* holds the term as a substring, both taken in lower case, in the order of
\* the list; when no record matches it returns the empty list.
C23_SearchExactly ==
    last.op = "search" =>
        LET term == last.arg[1]
            field == last.arg[2]
            results == last.arg[3]
            M == MatchingPositions(contacts, term, field)
        IN  /\ last.ret = "list"
            /\ Len(results) = Cardinality(M)
            /\ \A k \in 1..Len(results) : results[k] = contacts[NthOf(M, k)]

\* a search in one field, with a term in upper case, has returned the second
\* record of the list and not the first
C23_Witness ==
    /\ last.op = "search"
    /\ last.arg[1] = <<87, 79, 82, 75>>
    /\ last.arg[2] = "category"
    /\ Len(contacts) >= 2
    /\ last.arg[3] = <<contacts[2]>>

\* a search has returned the empty list on a list that has records
SearchFoundNothing ==
    /\ last.op = "search"
    /\ contacts # <<>>
    /\ last.arg[3] = <<>>

\* what the constructor leaves, file being what the store file holds: the empty
\* list and the empty undo stack when it holds no JSON list; when it holds a
\* list, the records of the file in their order, each with id, category,
\* notes and last_modified, and every key of the file with the value of the
\* file
LoadedFrom(file) ==
    /\ undo_stack = <<>>
    /\ IF file.kind = "list"
       THEN /\ SameOnPresent(file.data, contacts)
            /\ \A i \in DOMAIN contacts :
                   {"id", "category", "notes", "last_modified"}
                       \subseteq DOMAIN contacts[i]
       ELSE contacts = <<>>

\* C24: constructing a manager never raises: on a store file that is
\* missing, unreadable, not JSON or not a JSON list it leaves the empty list
\* and the empty undo stack; on a list, every record of the file is loaded
\* with id, category, notes and last_modified present, the missing ones
\* filled in and the present ones as in the file.
C24_LoadNeverFails ==
    last.op = "load" => last.ret = "None" /\ LoadedFrom(store_file)

\* what does hold of load_contacts: when the constructor returns, the list
\* and the undo stack are as C24 says
LoadedWhenReturned ==
    (last.op = "load" /\ last.ret = "None") => LoadedFrom(store_file)

\* a manager has been constructed on a list that holds a dict without the
\* optional keys
LoadedLegacyList ==
    /\ last.op = "load"
    /\ last.ret = "None"
    /\ store_file.kind = "list"
    /\ \E i \in DOMAIN store_file.data :
           DOMAIN store_file.data[i] # ContactFields

\* the same records, field for field, whatever their order
SameRecords(cs, ds) ==
    {cs[i] : i \in DOMAIN cs} = {ds[i] : i \in DOMAIN ds}

\* C25: after n <= 10 successful mutations on a store whose undo stack was
\* empty, n calls of undo all return True (none returns False before the
\* n-th has succeeded); after the n-th the list holds the same records as
\* before the first mutation and the undo stack is empty; the call of undo
\* after that returns False.
C25_UndoAll ==
    (last.op = "undo" /\ muts <= UndoMaxLen) =>
        /\ undos <= muts
        /\ last.ret = "False" => undos = muts
        /\ (last.ret = "True" /\ undos = muts) =>
               /\ undo_stack = <<>>
               /\ SameRecords(contacts, BaseContacts)

\* what does hold of n mutations and n undos: the undos all return True,
\* the stack is empty after the n-th and the next undo returns False
UndoAllEmptiesStack ==
    (last.op = "undo" /\ muts <= UndoMaxLen) =>
        /\ undos <= muts
        /\ last.ret = "False" => undos = muts
        /\ (last.ret = "True" /\ undos = muts) => undo_stack = <<>>

\* three mutations have been undone by three undos
UndoneThree ==
    /\ last.op = "undo"
    /\ last.ret = "True"
    /\ muts = 3
    /\ undos = 3

\* C26: a successful add_contact, update_contact or delete_contact changes
\* only its target.  add_contact leaves the former records in place and puts
\* one record, made of its arguments, after them; update_contact changes one
\* record that has the given id, which keeps its id and its position, and no
\* other; delete_contact takes one record that has the given id off the list
\* and leaves the others as they were, in their order.
C26_OnlyTarget ==
    /\ (last.op = "add" /\ last.ret = "contact") =>
           /\ Len(contacts) = Len(last.contacts) + 1
           /\ \A j \in DOMAIN last.contacts : contacts[j] = last.contacts[j]
           /\ LET new == contacts[Len(contacts)]
              IN  <<new.name, new.phone, new.email>> = last.arg
    /\ (last.op = "update" /\ last.ret = "True") =>
           /\ Len(contacts) = Len(last.contacts)
           /\ \E i \in DOMAIN contacts :
                  /\ last.contacts[i].id = last.arg
                  /\ contacts[i].id = last.arg
                  /\ \A j \in DOMAIN contacts \ {i} :
                         contacts[j] = last.contacts[j]
    /\ (last.op = "delete" /\ last.ret = "True") =>
           /\ Len(contacts) = Len(last.contacts) - 1
           /\ \E i \in DOMAIN last.contacts :
                  /\ last.contacts[i].id = last.arg
                  /\ \A j \in 1..(i - 1) : contacts[j] = last.contacts[j]
                  /\ \A j \in i..Len(contacts) :
                         contacts[j] = last.contacts[j + 1]

\* the first of two records has been deleted and the second is left
C26_Witness ==
    /\ last.op = "delete"
    /\ last.ret = "True"
    /\ Len(last.contacts) = 2
    /\ last.contacts[1].id = last.arg
    /\ contacts = <<last.contacts[2]>>

\* the second of two records has been updated and the first is as it was
UpdatedSecond ==
    /\ last.op = "update"
    /\ last.ret = "True"
    /\ Len(contacts) = 2
    /\ contacts[1] = last.contacts[1]
    /\ contacts[2] # last.contacts[2]

\* C27: a call never removes or overwrites a backup file made before it:
\* every backup of before the call is still there with the content it had,
\* also when the call saves within the clock second of an earlier save.
C27_BackupsKept ==
    \A s \in DOMAIN last.backups :
        s \in DOMAIN backups /\ backups[s] = last.backups[s]

\* what does hold of the backups: no backup file is removed, and the only
\* one a call can overwrite is the one named after the second of the call
BackupsKeptInOtherSeconds ==
    \A s \in DOMAIN last.backups :
        /\ s \in DOMAIN backups
        /\ backups[s] # last.backups[s] => s = Stamp(now)

\* a call has added a backup file and left an earlier one as it was
BackupAdded ==
    /\ DOMAIN last.backups # {}
    /\ DOMAIN backups # DOMAIN last.backups

\* C28: when the process has died inside save_contacts while the store file
\* existed, the whole content the store file had before the call is on disk:
\* in the store file, or in the backup file named after the clock reading of
\* the call.
C28_PriorContentSurvives ==
    (last.ret = "crash" /\ last.store_file.kind # "absent") =>
        \/ store_file = last.store_file
        \/ /\ Stamp(now) \in DOMAIN backups
           /\ backups[Stamp(now)] = last.store_file

\* the process has died while json.dump was writing over a list of records:
\* the store file is incomplete and the backup holds the list
C28_Witness ==
    /\ last.ret = "crash"
    /\ last.arg = "write"
    /\ last.store_file.kind = "list"
    /\ last.store_file.data # <<>>
    /\ store_file = Corrupt
    /\ backups[Stamp(now)] = last.store_file

\* the process has died while shutil.copy was writing the backup
CrashedInCopy ==
    /\ last.ret = "crash"
    /\ last.arg = "copy"
    /\ last.store_file.kind = "list"
    /\ backups[Stamp(now)] = Corrupt

\* C29: when the add handler of the window has found the entries to be a
\* duplicate and the user has answered yes to "Add anyway?" (only then does
\* the handler call add_contact of the manager with entries that
\* is_duplicate flags), the record is added to the list.
C29_OverrideAdds ==
    [][(/\ last'.op = "add"
        /\ is_duplicate(contacts, last'.arg[1], last'.arg[2], last'.arg[3]))
           => (last'.ret = "contact" /\ Len(contacts') = Len(contacts) + 1)]_vars

\* what does hold of the override: add_contact of the manager returns None
\* and leaves the list as it is
OverrideAddsNothing ==
    [][(/\ last'.op = "add"
        /\ is_duplicate(contacts, last'.arg[1], last'.arg[2], last'.arg[3]))
           => (last'.ret = "None" /\ contacts' = contacts)]_vars

\* C30: the page number of the window designates a page of the list the
\* table was filled from: 1 <= current_page <= max(1, number of pages).
C30_PageExists ==
    /\ 1 <= gui.current_page
    /\ gui.current_page <=
           (IF PageCount(Len(gui.listed)) > 1
            THEN PageCount(Len(gui.listed)) ELSE 1)

\* what does hold of the page number: it is at least 1
PageAtLeastOne == 1 <= gui.current_page

\* the table shows no row of a list that has records
EmptyPageShown ==
    /\ gui.listed # <<>>
    /\ Rows(gui) = <<>>

====
